---- MODULE Spec2Model ----
(***************************************************************************)
(* Model of applier.py: the apply / clean workflow that clones module      *)
(* repositories into a temporary workspace, merge-copies their modules/    *)
(* and thirdparty/ trees into the Godot tree, applies patches, runs the    *)
(* helper script and records the copied paths in .applied_modules.         *)
(*                                                                         *)
(* Strings that the code formats, splits or strips are sequences of        *)
(* tokens (one token per character, or one token for a fixed fragment      *)
(* that holds no whitespace), so that formatting and parsing are computed. *)
(* Entries of modules/ and thirdparty/ are directories of plain files:     *)
(* a directory is a function from file names to file contents.             *)
(***************************************************************************)
EXTENDS Integers, Sequences, FiniteSets, TLC

\* ---------------------------------------------------------------- bounds
\* number of commands (apply or clean) issued in one behaviour
MaxRuns == 3

\* ------------------------------------------------------- program constants
TEMP == "temp"
MODULES == "modules"
THIRDPARTY == "thirdparty"
PATCHES == "patches"
HELPER_SCRIPT_FILE == "helper_script.py"

\* the absolute path of the Godot directory, one token without whitespace
GODOT == "<godot_dir>"

Dirs == {MODULES, THIRDPARTY}

\* characters removed by str.strip()
Whitespace == {" ", "\t", "\n"}

\* ------------------------------------------------------------ the world
Empty == <<>>

\* entry names (sequences of characters)
NameA == <<"a">>
NameB == <<"b">>
NameASp == <<"a", " ">>
NameSp == <<" ">>

\* patch directory file names
PatchP == <<"p", ".", "p", "a", "t", "c", "h">>
PatchQ == <<"q", ".", "p", "a", "t", "c", "h">>
Notes == <<"n", ".", "t", "x", "t">>

\* Remote repositories by URL: the directories the clone carries, the
\* entries of its modules/ and thirdparty/, the files of its patches/,
\* whether it carries helper_script.py, and the branches it has.
Repos ==
  [u \in {"A", "B", "C"} |->
     CASE u = "A" ->
            [dirs |-> {MODULES, THIRDPARTY, PATCHES},
             modules |-> (NameA :> ("f" :> 1)) @@ (NameB :> ("f" :> 1)),
             thirdparty |-> (NameA :> ("f" :> 1)),
             patches |-> {PatchP, PatchQ, Notes},
             hook |-> FALSE,
             branches |-> {<<"m">>}]
       [] u = "B" ->
            [dirs |-> {MODULES},
             modules |-> (NameA :> ("f" :> 2)),
             thirdparty |-> Empty,
             patches |-> {},
             hook |-> TRUE,
             branches |-> {<<"m">>}]
       [] OTHER ->
            [dirs |-> {MODULES, THIRDPARTY},
             modules |-> (NameASp :> ("f" :> 3)),
             thirdparty |-> (NameSp :> ("f" :> 3)),
             patches |-> {},
             hook |-> FALSE,
             branches |-> {<<"m">>}]]

\* patches that git apply rejects
BadPatches == {PatchQ}

\* manifest files: sequences of lines, each a sequence of characters
Manifests ==
  { << <<"#", "A">>, <<>>, <<"A">> >>,
    << <<"A">>, <<"B", " ", "m">> >>,
    << <<"C">> >>,
    << <<"A", " ", " ", "m">>, <<"A", "\t", "m">>, <<"B">> >> }

\* contents of the Godot tree's modules/ and thirdparty/ before any run
InitTrees ==
  { (MODULES :> Empty) @@ (THIRDPARTY :> Empty),
    (MODULES :> (NameA :> ("old" :> 0))) @@ (THIRDPARTY :> Empty),
    (MODULES :> (NameB :> (("f" :> 0) @@ ("old" :> 0))))
       @@ (THIRDPARTY :> (NameA :> ("f" :> 0))) }

VARIABLES
  pc,            \* position of the running command
  cmd,           \* the command that runs or ran last: "apply" or "clean"
  error,         \* the exception that ended the last command, or "none"
  runs,          \* number of commands started
  prev,          \* the command that ran before cmd: <<cmd, outcome, error>>
  force,         \* args.force of the current apply
  env,           \* what the last apply found: modules file, Godot directory, git
  manifest,      \* lines of the modules file
  pathFile,      \* a file named "path" exists in the working directory
  tree,          \* the Godot tree: directory -> entry name -> directory
  committed,     \* the entries git tracks, as committed
  patched,       \* patches whose edits of tracked files are in the tree
  tempExists,    \* the temp directory exists
  temp,          \* the clones in the temp directory
  idx,           \* next manifest line to read
  repo,          \* repository of the manifest line read last
  branch,        \* branch of the manifest line read last
  cloned,        \* the clones that git clone created in the current run
  listing,       \* the clones the per-module loop iterates over
  todo,          \* clones the per-module loop has not visited yet
  cur,           \* clone the per-module loop is at
  applied_files, \* the list accumulated by apply
  merged,        \* the paths merge-copies wrote since the last successful clean
  logExists,     \* .applied_modules exists
  log,           \* lines of .applied_modules
  pre            \* the tree as it was when the last apply started

vars == <<pc, cmd, error, runs, prev, force, env, manifest, pathFile, tree, committed,
          patched, tempExists, temp, idx, repo, branch, cloned, listing, todo, cur,
          applied_files, merged, logExists, log, pre>>

\* ------------------------------------------------------------- helpers
\* every ordering of a finite set: os.listdir returns entries in arbitrary order
Orders(S) ==
  {o \in [1..Cardinality(S) -> S] : \A i, j \in 1..Cardinality(S) : o[i] = o[j] => i = j}

Entries(t, d) == IF d \in DOMAIN t THEN t[d] ELSE Empty

\* str.strip(): drop leading and trailing whitespace
RECURSIVE lstrip(_)
lstrip(s) == IF s # <<>> /\ Head(s) \in Whitespace THEN lstrip(Tail(s)) ELSE s

RECURSIVE rstrip(_)
rstrip(s) ==
  IF s # <<>> /\ s[Len(s)] \in Whitespace THEN rstrip(SubSeq(s, 1, Len(s) - 1)) ELSE s

strip(s) == rstrip(lstrip(s))

\* str.endswith
endswith(s, suffix) ==
  Len(s) >= Len(suffix) /\ SubSeq(s, Len(s) - Len(suffix) + 1, Len(s)) = suffix

\* "{}/{}".format(MODULES_FORMAT.format(godot_dir), name)
formatted_to(d, name) == <<GODOT, "/", d, "/">> \o name

\* what a path string names in the Godot tree: a directory and an entry
\* name; the empty name is the directory itself
ResolvePath(p) ==
  IF Len(p) >= 4 /\ SubSeq(p, 1, 2) = <<GODOT, "/">> /\ p[3] \in Dirs /\ p[4] = "/"
  THEN [dir |-> p[3], name |-> SubSeq(p, 5, Len(p)), inTree |-> TRUE]
  ELSE [dir |-> "", name |-> <<>>, inTree |-> FALSE]

dir_exists(t, p) ==
  LET r == ResolvePath(p) IN
    /\ r.inTree
    /\ r.dir \in DOMAIN t
    /\ (r.name = <<>> \/ r.name \in DOMAIN t[r.dir])

Without(f, k) == [x \in DOMAIN f \ {k} |-> f[x]]

rm_rf(t, p) ==
  LET r == ResolvePath(p) IN
    IF ~dir_exists(t, p) THEN t
    ELSE IF r.name = <<>> THEN Without(t, r.dir)
    ELSE [t EXCEPT ![r.dir] = Without(t[r.dir], r.name)]

\* files of src written over dst, files only dst has are kept
MergeDir(dst, src) ==
  [f \in DOMAIN dst \cup DOMAIN src |-> IF f \in DOMAIN src THEN src[f] ELSE dst[f]]

PutEntry(t, d, name, content) ==
  [x \in DOMAIN t \cup {d} |->
     IF x = d THEN [n \in DOMAIN Entries(t, d) \cup {name} |->
                      IF n = name THEN content ELSE t[d][n]]
     ELSE t[x]]

\* copytree that takes dirs_exist_ok as always set
copytree_IgnoresFlag(src, t, d, name, dirs_exist_ok) ==
  [ok |-> TRUE,
   tree |-> PutEntry(t, d, name,
                     MergeDir(IF d \in DOMAIN t /\ name \in DOMAIN t[d]
                              THEN t[d][name] ELSE Empty, src))]

\* copytree that removes the existing entry before it copies
copytree_Replaces(src, t, d, name, dirs_exist_ok) ==
  LET exists == d \in DOMAIN t /\ name \in DOMAIN t[d] IN
    IF exists /\ ~dirs_exist_ok
    THEN [ok |-> FALSE, tree |-> t]
    ELSE [ok |-> TRUE, tree |-> PutEntry(t, d, name, src)]

\* shutil.copytree(src, dst, dirs_exist_ok=force) of one entry
copytree(src, t, d, name, dirs_exist_ok) ==
  LET exists == d \in DOMAIN t /\ name \in DOMAIN t[d] IN
    IF exists /\ ~dirs_exist_ok
    THEN [ok |-> FALSE, tree |-> t]
    ELSE [ok |-> TRUE,
          tree |-> PutEntry(t, d, name,
                            MergeDir(IF exists THEN t[d][name] ELSE Empty, src))]

\* DirUtil.copy_dirs over the listing `order` of from_dir; an exception of
\* copytree ends the loop and keeps what earlier iterations copied
RECURSIVE copy_dirs_from(_, _, _, _, _, _, _)
copy_dirs_from(from, t, d, frc, order, i, changed) ==
  IF i > Len(order) THEN [ok |-> TRUE, tree |-> t, changed |-> changed]
  ELSE LET r == copytree(from[order[i]], t, d, order[i], frc) IN
         IF ~r.ok THEN [ok |-> FALSE, tree |-> r.tree, changed |-> changed]
         ELSE copy_dirs_from(from, r.tree, d, frc, order, i + 1,
                             Append(changed, formatted_to(d, order[i])))

copy_dirs(from, t, d, frc, order) == copy_dirs_from(from, t, d, frc, order, 1, <<>>)

\* git restore . in the Godot directory: tracked files go back to their
\* committed content (deleted ones reappear), untracked files stay
git_restore_dir(t) ==
  [d \in DOMAIN t \cup {x \in DOMAIN committed : DOMAIN committed[x] # {}} |->
     LET c == Entries(t, d)
         m == Entries(committed, d) IN
       [n \in DOMAIN c \cup DOMAIN m |->
          IF n \in DOMAIN m
          THEN MergeDir(IF n \in DOMAIN c THEN c[n] ELSE Empty, m[n])
          ELSE c[n]]]

\* line.split(" ", 1): position of the first space, 0 if none
RECURSIVE find_space(_, _)
find_space(line, i) ==
  IF i > Len(line) THEN 0
  ELSE IF line[i] = " " THEN i
  ELSE find_space(line, i + 1)

\* parse_line that splits at every space and takes the second field as branch
parse_line_SplitsAll(line) ==
  IF line = <<>> \/ Head(line) = "#" THEN [skip |-> TRUE, repo |-> <<>>, branch |-> <<>>]
  ELSE LET k == find_space(line, 1) IN
         IF k = 0 THEN [skip |-> FALSE, repo |-> line, branch |-> <<>>]
         ELSE LET rest == SubSeq(line, k + 1, Len(line))
                  k2 == find_space(rest, 1) IN
                [skip |-> FALSE,
                 repo |-> SubSeq(line, 1, k - 1),
                 branch |-> IF k2 = 0 THEN rest ELSE SubSeq(rest, 1, k2 - 1)]

\* the parse of one manifest line
parse_line(line) ==
  IF line = <<>> \/ Head(line) = "#" THEN [skip |-> TRUE, repo |-> <<>>, branch |-> <<>>]
  ELSE LET k == find_space(line, 1) IN
         IF k = 0 THEN [skip |-> FALSE, repo |-> line, branch |-> <<>>]
         ELSE [skip |-> FALSE,
               repo |-> SubSeq(line, 1, k - 1),
               branch |-> SubSeq(line, k + 1, Len(line))]

\* what `git clone [-b branch] url` leaves in the workspace: the name of the
\* new directory, or nothing when the command fails (the exit status is ignored)
clone_result(ws, url, br, network) ==
  IF /\ network
     /\ Len(url) = 1 /\ url[1] \in DOMAIN Repos
     /\ (br = <<>> \/ br \in Repos[url[1]].branches)
     /\ url[1] \notin ws
  THEN ws \cup {url[1]}
  ELSE ws

\* apply_patches that gives up at a patch git apply rejects, which the
\* listing may return first
apply_patches_StopsAtFailure(files) ==
  IF files \cap BadPatches # {} THEN {}
  ELSE {f \in files : endswith(f, <<"p", "a", "t", "c", "h">>)}

\* GitUtil.apply_patches: the patches that git apply applies
apply_patches(files) ==
  {f \in files : endswith(f, <<"p", "a", "t", "c", "h">>) /\ f \notin BadPatches}

\* ------------------------------------------------------------------ Init
Terminal == {"idle", "done", "failed"}

Init ==
  /\ pc = "idle"
  /\ cmd = "none"
  /\ error = "none"
  /\ runs = 0
  /\ prev = <<"none", "idle", "none">>
  /\ force = FALSE
  /\ env = [modules_file |-> TRUE, godot_dir |-> TRUE, git |-> TRUE]
  /\ manifest \in Manifests
  /\ pathFile \in BOOLEAN
  /\ tree \in InitTrees
  /\ committed \in {tree, (MODULES :> Empty) @@ (THIRDPARTY :> Empty)}
  /\ patched = {}
  /\ tempExists = FALSE
  /\ temp = {}
  /\ idx = 1
  /\ repo = <<>>
  /\ branch = <<>>
  /\ cloned = {}
  /\ listing = {}
  /\ todo = {}
  /\ cur = "none"
  /\ applied_files = <<>>
  /\ merged = {}
  /\ logExists = FALSE
  /\ log = <<>>
  /\ pre = tree

\* a command starts: the one before it becomes prev
Start(c) ==
  /\ pc \in Terminal
  /\ runs < MaxRuns
  /\ runs' = runs + 1
  /\ prev' = <<cmd, pc, error>>
  /\ cmd' = c

\* a command ends, by returning ("done") or by an exception ("failed")
Finish(outcome, err) ==
  /\ pc' = outcome
  /\ error' = err

\* ----------------------------------------------------------------- apply
\* apply_init that removes the stale workspace before the checks
apply_init_RemovesFirst(mf, gd, git, mk, te, ws) ==
  IF ~mf THEN [err |-> "ManifestNotFound", tempExists |-> FALSE, temp |-> {}]
  ELSE IF ~gd THEN [err |-> "TargetNotFound", tempExists |-> FALSE, temp |-> {}]
  ELSE IF ~git THEN [err |-> "GitNotFound", tempExists |-> FALSE, temp |-> {}]
  ELSE IF ~mk THEN [err |-> "TempCreate", tempExists |-> FALSE, temp |-> {}]
  ELSE [err |-> "none", tempExists |-> TRUE, temp |-> {}]

\* apply_init that creates the workspace without removing a stale one
apply_init_KeepsStale(mf, gd, git, mk, te, ws) ==
  IF ~mf THEN [err |-> "ManifestNotFound", tempExists |-> te, temp |-> ws]
  ELSE IF ~gd THEN [err |-> "TargetNotFound", tempExists |-> te, temp |-> ws]
  ELSE IF ~git THEN [err |-> "GitNotFound", tempExists |-> te, temp |-> ws]
  ELSE IF ~mk /\ ~te THEN [err |-> "TempCreate", tempExists |-> FALSE, temp |-> {}]
  ELSE [err |-> "none", tempExists |-> TRUE, temp |-> ws]

\* lines 178-200: the precondition checks, then the workspace. The inputs
\* are what the checks find: the modules file, the Godot directory, git on
\* the path, and whether mkdir yields a directory. te, ws: the workspace
\* as found.
apply_init(mf, gd, git, mk, te, ws) ==
  IF ~mf THEN [err |-> "ManifestNotFound", tempExists |-> te, temp |-> ws]
  ELSE IF ~gd THEN [err |-> "TargetNotFound", tempExists |-> te, temp |-> ws]
  ELSE IF ~git THEN [err |-> "GitNotFound", tempExists |-> te, temp |-> ws]
  ELSE IF ~mk THEN [err |-> "TempCreate", tempExists |-> FALSE, temp |-> {}]
  ELSE [err |-> "none", tempExists |-> TRUE, temp |-> {}]

ApplyInit ==
  /\ Start("apply")
  /\ \E frc \in BOOLEAN, mf \in BOOLEAN, gd \in BOOLEAN, git \in BOOLEAN, mk \in BOOLEAN :
       LET r == apply_init(mf, gd, git, mk, tempExists, temp) IN
         /\ force' = frc
         /\ env' = [modules_file |-> mf, godot_dir |-> gd, git |-> git]
         /\ tempExists' = r.tempExists
         /\ temp' = r.temp
         /\ IF r.err = "none"
            THEN pc' = "fetch" /\ error' = "none"
            ELSE Finish("failed", r.err)
  /\ pre' = tree
  /\ idx' = 1
  /\ listing' = {}
  /\ todo' = {}
  /\ cur' = "none"
  /\ applied_files' = <<>>
  /\ repo' = <<>>
  /\ branch' = <<>>
  /\ cloned' = {}
  /\ UNCHANGED <<manifest, pathFile, tree, committed, patched, merged, logExists, log>>

\* lines 205-218: one manifest line
CloneLine ==
  /\ pc = "fetch"
  /\ idx <= Len(manifest)
  /\ LET p == parse_line(manifest[idx]) IN
       IF p.skip THEN UNCHANGED <<temp, pc, error, repo, branch, cloned>>
       ELSE /\ repo' = p.repo
            /\ branch' = p.branch
            /\ IF ~tempExists
               THEN Finish("failed", "Clone") /\ UNCHANGED <<temp, cloned>>
               ELSE /\ \E network \in BOOLEAN :
                         /\ temp' = clone_result(temp, p.repo, p.branch, network)
                         /\ cloned' = cloned \cup (temp' \ temp)
                    /\ UNCHANGED <<pc, error>>
  /\ idx' = idx + 1
  /\ UNCHANGED <<cmd, runs, prev, force, env, manifest, pathFile, tree, committed, patched,
                 tempExists, listing, todo, cur, applied_files, merged, logExists, log, pre>>

\* lines 220-224: the listing of the workspace
FetchDone ==
  /\ pc = "fetch"
  /\ idx > Len(manifest)
  /\ applied_files' = <<>>
  /\ listing' = temp
  /\ todo' = temp
  /\ pc' = "loop"
  /\ UNCHANGED <<cmd, error, runs, prev, force, env, manifest, pathFile, tree, committed,
                 patched, tempExists, temp, idx, repo, branch, cloned, cur, merged,
                 logExists, log, pre>>

\* line 224: the next clone of the listing, in any order
NextModule ==
  /\ pc = "loop"
  /\ todo # {}
  /\ \E m \in todo : cur' = m /\ todo' = todo \ {m}
  /\ pc' = "modules"
  /\ UNCHANGED <<cmd, error, runs, prev, force, env, manifest, pathFile, tree, committed,
                 patched, tempExists, temp, idx, repo, branch, cloned, listing,
                 applied_files, merged, logExists, log, pre>>

\* Merge that puts the new paths in front of the accumulated list
Merge_Prepends(d, next) ==
  /\ IF d \in Repos[cur].dirs
     THEN \E order \in Orders(DOMAIN Repos[cur][d]) :
            LET r == copy_dirs(Repos[cur][d], tree, d, force, order) IN
              /\ tree' = r.tree
              /\ merged' = merged \cup {r.changed[i] : i \in 1..Len(r.changed)}
              /\ IF r.ok
                 THEN /\ applied_files' = r.changed \o applied_files
                      /\ pc' = next
                      /\ UNCHANGED error
                 ELSE /\ Finish("failed", "MergeCopy")
                      /\ UNCHANGED applied_files
     ELSE /\ pc' = next
          /\ UNCHANGED <<tree, applied_files, merged, error>>
  /\ UNCHANGED <<cmd, runs, prev, force, env, manifest, pathFile, committed, patched, tempExists,
                 temp, idx, repo, branch, cloned, listing, todo, cur, logExists, log, pre>>

\* Merge that reports a failed merge-copy and goes on
Merge_SwallowsFailure(d, next) ==
  /\ IF d \in Repos[cur].dirs
     THEN \E order \in Orders(DOMAIN Repos[cur][d]) :
            LET r == copy_dirs(Repos[cur][d], tree, d, force, order) IN
              /\ tree' = r.tree
              /\ merged' = merged \cup {r.changed[i] : i \in 1..Len(r.changed)}
              /\ applied_files' = applied_files \o r.changed
              /\ pc' = next
              /\ UNCHANGED error
     ELSE /\ pc' = next
          /\ UNCHANGED <<tree, applied_files, merged, error>>
  /\ UNCHANGED <<cmd, runs, prev, force, env, manifest, pathFile, committed, patched, tempExists,
                 temp, idx, repo, branch, cloned, listing, todo, cur, logExists, log, pre>>

\* lines 227-235: the merge-copy of one of the clone's directories
Merge(d, next) ==
  /\ IF d \in Repos[cur].dirs
     THEN \E order \in Orders(DOMAIN Repos[cur][d]) :
            LET r == copy_dirs(Repos[cur][d], tree, d, force, order) IN
              /\ tree' = r.tree
              /\ merged' = merged \cup {r.changed[i] : i \in 1..Len(r.changed)}
              /\ IF r.ok
                 THEN /\ applied_files' = applied_files \o r.changed
                      /\ pc' = next
                      /\ UNCHANGED error
                 ELSE /\ Finish("failed", "MergeCopy")
                      /\ UNCHANGED applied_files
     ELSE /\ pc' = next
          /\ UNCHANGED <<tree, applied_files, merged, error>>
  /\ UNCHANGED <<cmd, runs, prev, force, env, manifest, pathFile, committed, patched, tempExists,
                 temp, idx, repo, branch, cloned, listing, todo, cur, logExists, log, pre>>

\* MergeModules that copies thirdparty/ first and goes on with the patches
MergeModules_ThirdpartyFirst == pc = "modules" /\ Merge(THIRDPARTY, "patches")

MergeModules == pc = "modules" /\ Merge(MODULES, "thirdparty")

MergeThirdparty == pc = "thirdparty" /\ Merge(THIRDPARTY, "patches")

\* lines 237-239
ApplyPatches ==
  /\ pc = "patches"
  /\ patched' = IF PATCHES \in Repos[cur].dirs
                THEN patched \cup apply_patches(Repos[cur].patches)
                ELSE patched
  /\ pc' = "hook"
  /\ UNCHANGED <<cmd, error, runs, prev, force, env, manifest, pathFile, tree, committed,
                 tempExists, temp, idx, repo, branch, cloned, listing, todo, cur,
                 applied_files, merged, logExists, log, pre>>

\* execute_helper_script, lines 152-167: "raised" when open("path") raises,
\* which is outside the try; "caught" otherwise, as types.ModuleTypes does
\* not exist and the AttributeError is caught before the entry point is called
execute_helper_script(path_file) == IF path_file THEN "caught" ELSE "raised"

\* lines 241-243
RunHook ==
  /\ pc = "hook"
  /\ IF Repos[cur].hook /\ execute_helper_script(pathFile) = "raised"
     THEN Finish("failed", "HookOpen")
     ELSE pc' = "loop" /\ UNCHANGED error
  /\ UNCHANGED <<cmd, runs, prev, force, env, manifest, pathFile, tree, committed, patched,
                 tempExists, temp, idx, repo, branch, cloned, listing, todo, cur,
                 applied_files, merged, logExists, log, pre>>

\* writelines that loses the last path
writelines_DropsLast(files) ==
  [i \in 1..(IF Len(files) = 0 THEN 0 ELSE Len(files) - 1) |-> files[i] \o <<"\n">>]

\* the lines written to .applied_modules
writelines(files) == [i \in 1..Len(files) |-> files[i] \o <<"\n">>]

\* PersistLog that leaves the workspace in place
PersistLog_KeepsTemp ==
  /\ pc = "loop"
  /\ todo = {}
  /\ log' = writelines(applied_files)
  /\ logExists' = TRUE
  /\ Finish("done", "none")
  /\ UNCHANGED <<cmd, runs, prev, force, env, manifest, pathFile, tree, committed,
                 patched, tempExists, temp, idx, repo, branch, cloned, listing, todo,
                 cur, applied_files, merged, pre>>

\* lines 245-251
PersistLog ==
  /\ pc = "loop"
  /\ todo = {}
  /\ tempExists' = FALSE
  /\ temp' = {}
  /\ log' = writelines(applied_files)
  /\ logExists' = TRUE
  /\ Finish("done", "none")
  /\ UNCHANGED <<cmd, runs, prev, force, env, manifest, pathFile, tree, committed, patched,
                 idx, repo, branch, cloned, listing, todo, cur, applied_files, merged, pre>>

\* ----------------------------------------------------------------- clean
\* lines 273-278: the deletions, in log order
RECURSIVE remove_applied(_, _, _)
remove_applied(t, paths, i) ==
  IF i > Len(paths) THEN t
  ELSE remove_applied(IF dir_exists(t, paths[i]) THEN rm_rf(t, paths[i]) ELSE t,
                      paths, i + 1)

\* lines 268-269
read_applied(lines) == [i \in 1..Len(lines) |-> strip(lines[i])]

\* clean that restores the tree before it looks for the log
clean_RestoresFirst(has_log, lines, t, pt) ==
  IF ~has_log
  THEN [err |-> "NoPriorApply", tree |-> git_restore_dir(t), patched |-> {},
        logExists |-> has_log, log |-> lines]
  ELSE [err |-> "none",
        tree |-> remove_applied(git_restore_dir(t), read_applied(lines), 1),
        patched |-> {},
        logExists |-> FALSE, log |-> <<>>]

\* clean that leaves the log file in place
clean_KeepsLog(has_log, lines, t, pt) ==
  IF ~has_log
  THEN [err |-> "NoPriorApply", tree |-> t, patched |-> pt,
        logExists |-> has_log, log |-> lines]
  ELSE [err |-> "none",
        tree |-> remove_applied(git_restore_dir(t), read_applied(lines), 1),
        patched |-> {},
        logExists |-> TRUE, log |-> lines]

\* clean, lines 261-280, on the log as found (has_log, lines), the tree t
\* and the patched set pt
clean(has_log, lines, t, pt) ==
  IF ~has_log
  THEN [err |-> "NoPriorApply", tree |-> t, patched |-> pt,
        logExists |-> has_log, log |-> lines]
  ELSE [err |-> "none",
        tree |-> remove_applied(git_restore_dir(t), read_applied(lines), 1),
        patched |-> {},
        logExists |-> FALSE, log |-> <<>>]

Clean ==
  /\ Start("clean")
  /\ LET r == clean(logExists, log, tree, patched) IN
       /\ tree' = r.tree
       /\ patched' = r.patched
       /\ logExists' = r.logExists
       /\ log' = r.log
       /\ merged' = IF r.err = "none" THEN {} ELSE merged
       /\ Finish(IF r.err = "none" THEN "done" ELSE "failed", r.err)
  /\ repo' = <<>>
  /\ branch' = <<>>
  /\ cloned' = {}
  /\ force' = FALSE
  /\ env' = env
  /\ idx' = 1
  /\ listing' = {}
  /\ todo' = {}
  /\ cur' = "none"
  /\ applied_files' = <<>>
  /\ UNCHANGED <<manifest, pathFile, committed, tempExists, temp, pre>>

\* ================================================================ claims
PreconditionErrors == {"ManifestNotFound", "TargetNotFound", "GitNotFound"}

\* the step is the start of command c
Starts(c) == pc \in Terminal /\ runs' = runs + 1 /\ cmd' = c

\* the path apply logged in a line of the log: the line without its newline
LoggedPath(line) == SubSeq(line, 1, Len(line) - 1)

\* C1: a successful apply followed by a clean leaves the entries of
\* modules/ and thirdparty/, and their content, as they were before the
\* apply, for force=false and for force=true.
C1_ApplyThenCleanRestores ==
  (/\ pc = "done" /\ cmd = "clean"
   /\ prev = <<"apply", "done", "none">>)
  => tree = pre

\* C2: when the module carries the hook script, a failure of the hook runner
\* does not propagate: the run goes on with the per-module loop.
C2_HookFailureContained ==
  [][(pc = "hook" /\ Repos[cur].hook) => pc' = "loop"]_vars

\* C3 as stated: once an apply run has created the workspace, the workspace
\* does not exist when the run ends, in Done or in Failed.
C3_WorkspaceGoneAtEnd ==
  (/\ cmd = "apply" /\ pc \in {"done", "failed"}
   /\ error \notin PreconditionErrors \cup {"TempCreate"})
  => ~tempExists

\* C3 as amended: the workspace does not exist when the run ends in Done; when
\* the run ends in Failed after the workspace was created, the workspace and
\* the clones in it are still there.
C3_WorkspaceGoneWhenDone ==
  /\ (cmd = "apply" /\ pc = "done") => (~tempExists /\ temp = {})
  /\ (cmd = "apply" /\ pc = "failed" /\ error \in {"MergeCopy", "HookOpen"})
       => (tempExists /\ cur \in temp)

\* an apply run that cloned and merged something has ended in Done
C3_Witness ==
  /\ cmd = "apply" /\ pc = "done"
  /\ listing # {}
  /\ applied_files # <<>>
  /\ ~tempExists

\* C4: after a successful apply the log exists and holds, one per line,
\* exactly the destination paths of the entries of modules/ and thirdparty/
\* of every clone of the run, and nothing else.
MergedEntries ==
  {t \in listing \X Dirs \X {NameA, NameB, NameASp, NameSp} :
     t[2] \in Repos[t[1]].dirs /\ t[3] \in DOMAIN Repos[t[1]][t[2]]}

C4_LogIsMergedPaths ==
  (cmd = "apply" /\ pc = "done")
  => /\ logExists
     /\ {log[i] : i \in 1..Len(log)}
          = {formatted_to(t[2], t[3]) \o <<"\n">> : t \in MergedEntries}
     /\ Len(log) = Cardinality(MergedEntries)

\* a successful apply of a module with two directories whose patch was applied
C4_Witness ==
  /\ cmd = "apply" /\ pc = "done"
  /\ "A" \in listing
  /\ PatchP \in patched
  /\ Len(log) >= 3

\* C5: a clean that finds the log ends without failure, and afterwards no
\* path that apply logged exists and the log does not exist.
C5_CleanRemovesLoggedPaths ==
  [][(Starts("clean") /\ logExists)
     => /\ pc' = "done"
        /\ ~logExists'
        /\ \A i \in 1..Len(log) : ~dir_exists(tree', LoggedPath(log[i]))]_vars

\* C6: a clean that finds no log fails with NoPriorApply and neither
\* restores the tree nor deletes anything.
C6_CleanWithoutLogMutatesNothing ==
  [][(Starts("clean") /\ ~logExists)
     => /\ pc' = "failed"
        /\ error' = "NoPriorApply"
        /\ UNCHANGED <<tree, patched, tempExists, temp, logExists, log>>]_vars

\* a clean failed for want of a log while patch edits and entries that a
\* restore or a deletion would have changed were in the tree
C6_Witness ==
  /\ cmd = "clean" /\ pc = "failed" /\ error = "NoPriorApply"
  /\ patched # {}
  /\ tree # pre

\* C7: a successful clean leaves no log, and a clean that follows a clean
\* fails with NoPriorApply.
C7_SecondCleanFails ==
  /\ (cmd = "clean" /\ pc = "done") => ~logExists
  /\ (cmd = "clean" /\ pc \in {"done", "failed"} /\ prev[1] = "clean")
       => (pc = "failed" /\ error = "NoPriorApply")

\* a clean that succeeded was followed by a clean
C7_Witness ==
  /\ cmd = "clean" /\ pc = "failed"
  /\ prev = <<"clean", "done", "none">>

\* the destination directory of the merge-copy the run is about to do
MergeDest == IF pc = "modules" THEN MODULES ELSE THIRDPARTY

AtMerge == pc \in {"modules", "thirdparty"} /\ MergeDest \in Repos[cur].dirs

Conflicts == DOMAIN Repos[cur][MergeDest] \cap DOMAIN Entries(tree, MergeDest)

\* C8: with force=false a merge-copy into a directory that holds an entry
\* named like a source entry fails; every entry that was there, the
\* conflicting one included, is as before, and the entries the call had
\* merged before the failure hold the source content.
C8_NoForceConflictFails ==
  [][(AtMerge /\ ~force /\ Conflicts # {})
     => LET d == MergeDest IN
          /\ pc' = "failed"
          /\ error' = "MergeCopy"
          /\ \A n \in DOMAIN Entries(tree, d) :
               n \in DOMAIN Entries(tree', d) /\ tree'[d][n] = tree[d][n]
          /\ \A n \in DOMAIN Entries(tree', d) \ DOMAIN Entries(tree, d) :
               n \in DOMAIN Repos[cur][d] /\ tree'[d][n] = Repos[cur][d][n]
          /\ \A e \in Dirs \ {d} : Entries(tree', e) = Entries(tree, e)]_vars

\* the merge-copy of A's modules/ failed on the existing entry a after it
\* had merged the entry b
C8_Witness ==
  /\ cmd = "apply" /\ pc = "failed" /\ error = "MergeCopy" /\ ~force
  /\ cur = "A"
  /\ listing = {"A"}
  /\ NameA \in DOMAIN pre[MODULES]
  /\ tree[MODULES][NameA] = pre[MODULES][NameA]
  /\ NameB \notin DOMAIN pre[MODULES]
  /\ NameB \in DOMAIN tree[MODULES]

\* C9 as stated: with force=true a merge-copy onto an existing entry of the
\* same name succeeds and leaves the entry with exactly the source's content.
C9_ForceReplacesEntry ==
  [][(AtMerge /\ force /\ Conflicts # {})
     => LET d == MergeDest IN
          /\ pc' # "failed"
          /\ \A n \in Conflicts : tree'[d][n] = Repos[cur][d][n]]_vars

\* C9 as amended: with force=true the merge-copy succeeds, every file of the
\* source entry is in the existing entry with the source's content, and the
\* files that only the old entry had are still there, unchanged.
C9_ForceMergesIntoEntry ==
  [][(AtMerge /\ force /\ Conflicts # {})
     => LET d == MergeDest IN
          /\ pc' # "failed"
          /\ \A n \in Conflicts :
               /\ DOMAIN tree'[d][n] = DOMAIN tree[d][n] \cup DOMAIN Repos[cur][d][n]
               /\ \A f \in DOMAIN Repos[cur][d][n] : tree'[d][n][f] = Repos[cur][d][n][f]
               /\ \A f \in DOMAIN tree[d][n] \ DOMAIN Repos[cur][d][n] :
                    tree'[d][n][f] = tree[d][n][f]]_vars

\* a forced merge-copy wrote A's file f into the existing entry a, whose
\* file old is still there
C9_Witness ==
  /\ cmd = "apply" /\ force /\ pc = "thirdparty" /\ cur = "A"
  /\ NameA \in DOMAIN pre[MODULES]
  /\ pre[MODULES][NameA] = ("old" :> 0)
  /\ tree[MODULES][NameA] = ("f" :> 1) @@ ("old" :> 0)

\* C10: an apply that finds the modules file or the Godot directory missing,
\* or git not on the path, fails and changes neither the workspace (a stale
\* one included), nor the tree, nor the log.
C10_PreconditionFailureMutatesNothing ==
  [][(Starts("apply") /\ ~(env'.modules_file /\ env'.godot_dir /\ env'.git))
     => /\ pc' = "failed"
        /\ error' \in PreconditionErrors
        /\ UNCHANGED <<tree, committed, patched, tempExists, temp, logExists, log>>]_vars

\* an apply failed for want of git while a stale workspace with a clone in
\* it and a log were there
C10_Witness ==
  /\ cmd = "apply" /\ pc = "failed" /\ error = "GitNotFound"
  /\ tempExists /\ temp # {}
  /\ logExists

\* the step reads a manifest line that names a Module Source
ClonesLine == pc = "fetch" /\ idx <= Len(manifest) /\ ~parse_line(manifest[idx]).skip

\* C11: when the clone of a Module Source fails (the step leaves no new
\* clone in the workspace), the apply run ends in Failed there, before any
\* merge-copy, patch or hook, and writes no log.
C11_CloneFailureAborts ==
  [][(ClonesLine /\ idx' = idx + 1 /\ temp' = temp)
     => /\ pc' = "failed"
        /\ error' = "Clone"
        /\ UNCHANGED <<tree, patched, logExists, log>>]_vars

PerModulePhase == {"loop", "modules", "thirdparty", "patches", "hook"}

\* C12: an apply whose checks pass either fails for want of a workspace
\* directory or starts the fetch with an existing, empty workspace, whatever
\* a prior run left there; the per-module phase visits only clones that git
\* clone created in the current run.
C12_StaleWorkspaceReplaced ==
  [][/\ (Starts("apply") /\ env'.modules_file /\ env'.godot_dir /\ env'.git)
          => \/ pc' = "fetch" /\ tempExists' /\ temp' = {}
             \/ pc' = "failed" /\ error' = "TempCreate" /\ ~tempExists'
     /\ (pc' \in PerModulePhase)
          => (listing' \subseteq cloned' /\ (cur' # "none" => cur' \in cloned'))]_vars

\* an apply that found the workspace of a failed run with the clone of A in
\* it is in its per-module phase with nothing cloned
C12_Witness ==
  /\ cmd = "apply" /\ pc = "loop"
  /\ prev[1] = "apply" /\ prev[2] = "failed" /\ prev[3] \in {"MergeCopy", "HookOpen"}
  /\ listing = {}
  /\ tempExists

\* the destination paths of the merge-copies of a run that listed the clones L
EntriesOf(L) ==
  {t \in L \X Dirs \X {NameA, NameB, NameASp, NameSp} :
     t[2] \in Repos[t[1]].dirs /\ t[3] \in DOMAIN Repos[t[1]][t[2]]}

LogLines(lg) == {lg[i] : i \in 1..Len(lg)}

\* the log is the complete record of a run that listed some set of clones
CompleteRecord(lg) ==
  \E L \in SUBSET DOMAIN Repos :
    /\ LogLines(lg) = {formatted_to(t[2], t[3]) \o <<"\n">> : t \in EntriesOf(L)}
    /\ Len(lg) = Cardinality(EntriesOf(L))

\* C13 as stated: between commands, a log that exists is the complete record
\* of one completed apply run and it holds every path that merge-copies of
\* any run, failed ones included, wrote since the last clean.
C13_LogCoversAllMerged ==
  (logExists /\ pc \in Terminal)
  => /\ CompleteRecord(log)
     /\ merged \subseteq {LoggedPath(l) : l \in LogLines(log)}

\* C13 as amended: a log that exists is the complete record of one completed
\* apply run, the last successful one: only the last step of a successful
\* apply writes it, with every path that run merged, and only a successful
\* clean removes it.
C13_LogIsOneCompletedRun ==
  [][/\ logExists' => CompleteRecord(log')
     /\ (logExists' /\ log' # log)
          => (cmd = "apply" /\ pc = "loop" /\ pc' = "done"
              /\ log' = writelines(applied_files)
              /\ LogLines(log') = {formatted_to(t[2], t[3]) \o <<"\n">> : t \in EntriesOf(listing)})
     /\ (logExists /\ ~logExists') => (cmd' = "clean" /\ pc' = "done")]_vars

\* a log of a successful apply is in place after a later apply failed with
\* entries merged
C13_Witness ==
  /\ cmd = "apply" /\ pc = "failed" /\ error \in {"MergeCopy", "HookOpen"}
  /\ prev = <<"apply", "done", "none">>
  /\ logExists /\ log # <<>>
  /\ merged # {}

\* the paths a module merges into directory d, with their newlines
ModulePaths(m, d) ==
  IF d \in Repos[m].dirs
  THEN {formatted_to(d, n) \o <<"\n">> : n \in DOMAIN Repos[m][d]}
  ELSE {}

\* lg is, module after module in the order ms, the module's modules/ paths
\* followed by its thirdparty/ paths
RECURSIVE InModuleOrder(_, _)
InModuleOrder(lg, ms) ==
  IF ms = <<>> THEN lg = <<>>
  ELSE LET k1 == Cardinality(ModulePaths(Head(ms), MODULES))
           k2 == Cardinality(ModulePaths(Head(ms), THIRDPARTY)) IN
         /\ Len(lg) >= k1 + k2
         /\ {lg[i] : i \in 1..k1} = ModulePaths(Head(ms), MODULES)
         /\ {lg[i] : i \in (k1 + 1)..(k1 + k2)} = ModulePaths(Head(ms), THIRDPARTY)
         /\ InModuleOrder(SubSeq(lg, k1 + k2 + 1, Len(lg)), Tail(ms))

\* the first manifest line that clones m
RECURSIVE FirstLine(_, _)
FirstLine(m, i) ==
  IF i > Len(manifest) THEN i
  ELSE IF ~parse_line(manifest[i]).skip /\ parse_line(manifest[i]).repo = <<m>> THEN i
  ELSE FirstLine(m, i + 1)

\* the listed clones in manifest order
ManifestOrders ==
  {o \in Orders(listing) :
     \A i, j \in 1..Len(o) : i < j => FirstLine(o[i], 1) < FirstLine(o[j], 1)}

\* C14 as stated: after a successful apply the log lists the merged paths in
\* manifest order of their modules, and within a module the modules/ paths
\* before the thirdparty/ paths.
C14_LogInManifestOrder ==
  (cmd = "apply" /\ pc = "done") => \E o \in ManifestOrders : InModuleOrder(log, o)

\* C14 as amended: after a successful apply the log lists the merged paths
\* module after module in some order of the listed clones (the order of the
\* workspace listing), and within a module the modules/ paths before the
\* thirdparty/ paths.
C14_LogInListingOrder ==
  (cmd = "apply" /\ pc = "done") => \E o \in Orders(listing) : InModuleOrder(log, o)

\* a successful apply of the two modules A and B
C14_Witness ==
  /\ cmd = "apply" /\ pc = "done"
  /\ listing = {"A", "B"}
  /\ Len(log) = 4

\* the step reads line idx of the manifest
ReadsLine == pc = "fetch" /\ idx <= Len(manifest) /\ idx' = idx + 1

Chars(s) == {s[i] : i \in 1..Len(s)}

\* r is the text of line before its first whitespace run and b the remainder
\* after that run
SplitAtWhitespaceRun(line, r, b) ==
  /\ Len(r) + Len(b) <= Len(line)
  /\ SubSeq(line, 1, Len(r)) = r
  /\ SubSeq(line, Len(line) - Len(b) + 1, Len(line)) = b
  /\ Chars(r) \cap Whitespace = {}
  /\ \A i \in (Len(r) + 1)..(Len(line) - Len(b)) : line[i] \in Whitespace
  /\ b # <<>> => b[1] \notin Whitespace

\* r is the text of line before its first space and b all that follows it
SplitAtFirstSpace(line, r, b) ==
  /\ " " \notin Chars(r)
  /\ IF " " \in Chars(line) THEN line = r \o <<" ">> \o b
     ELSE r = line /\ b = <<>>

\* C15 as stated: an empty line or a line that starts with '#' yields no
\* Module Source (nothing is parsed or cloned); every other line yields the
\* repository before its first whitespace run and the branch after it.
C15_SplitsAtWhitespaceRun ==
  [][ReadsLine
     => IF manifest[idx] = <<>> \/ manifest[idx][1] = "#"
        THEN UNCHANGED <<repo, branch, temp>>
        ELSE SplitAtWhitespaceRun(manifest[idx], repo', branch')]_vars

\* C15 as amended: an empty line or a line that starts with '#' yields no
\* Module Source; every other line yields the repository before its first
\* space character and, as branch, everything after that space, or the whole
\* line and no branch when it holds no space.
C15_SplitsAtFirstSpace ==
  [][ReadsLine
     => IF manifest[idx] = <<>> \/ manifest[idx][1] = "#"
        THEN UNCHANGED <<repo, branch, temp>>
        ELSE SplitAtFirstSpace(manifest[idx], repo', branch')]_vars

\* the line "A  m" was read: the branch starts with the second space
C15_Witness ==
  /\ pc = "fetch" /\ idx = 2
  /\ manifest[1] = <<"A", " ", " ", "m">>
  /\ repo = <<"A">>
  /\ branch = <<" ", "m">>

\* C16: within an apply run, clones happen only in the fetch step; the tree
\* changes only in a merge step, after the last manifest line was read; for
\* each module the merge of modules/ is followed by the merge of
\* thirdparty/, then by its patches, then by its hook; the log is written
\* only when no module is left to visit, in the step that deletes the
\* workspace and ends the run.
C16_StepsInOrder ==
  [][(cmd = "apply" /\ cmd' = "apply")
     => /\ (temp' # temp /\ temp' # {}) => pc = "fetch"
        /\ tree' # tree
             => /\ pc \in {"modules", "thirdparty"}
                /\ idx > Len(manifest)
                /\ \A d \in Dirs : Entries(tree', d) # Entries(tree, d) => d = MergeDest
        /\ patched' # patched => pc = "patches"
        /\ pc = "loop" => pc' \in {"loop", "modules", "done"}
        /\ pc = "modules" => (pc' \in {"modules", "thirdparty", "failed"} /\ cur' = cur)
        /\ pc = "thirdparty" => (pc' \in {"thirdparty", "patches", "failed"} /\ cur' = cur)
        /\ pc = "patches" => (pc' \in {"patches", "hook"} /\ cur' = cur)
        /\ pc = "hook" => (pc' \in {"hook", "loop", "failed"} /\ cur' = cur)
        /\ (log' # log \/ logExists' # logExists)
             => (pc = "loop" /\ todo = {} /\ pc' = "done" /\ ~tempExists')]_vars

\* an apply of the modules A and B went through all its steps
C16_Witness ==
  /\ cmd = "apply" /\ pc = "done"
  /\ listing = {"A", "B"}
  /\ PatchP \in patched
  /\ logExists /\ ~tempExists

HasPatchSuffix(f) ==
  Len(f) >= 5 /\ <<f[Len(f) - 4], f[Len(f) - 3], f[Len(f) - 2], f[Len(f) - 1], f[Len(f)]>>
                   = <<"p", "a", "t", "c", "h">>

\* C17: the patch step of a module never ends the run: it goes on to the
\* module's hook with the modules still to visit and the accumulated paths
\* untouched; every patch file git accepts is applied even when another one
\* of the module is rejected, and a file without the patch suffix is never
\* applied.
C17_PatchFailureDoesNotAbort ==
  [][pc = "patches"
     => /\ pc' \in {"patches", "hook"}
        /\ UNCHANGED <<cur, todo, applied_files, tree, tempExists, temp>>
        /\ (pc' = "hook" /\ PATCHES \in Repos[cur].dirs)
             => \A f \in Repos[cur].patches :
                  (HasPatchSuffix(f) /\ f \notin BadPatches) => f \in patched'
        /\ \A f \in patched' : HasPatchSuffix(f) /\ f \notin BadPatches]_vars

\* an apply of module A, one of whose patches git rejects, ended in Done
\* with its other patch applied and its three paths logged
C17_Witness ==
  /\ cmd = "apply" /\ pc = "done"
  /\ listing = {"A"}
  /\ patched = {PatchP}
  /\ Len(log) = 3

\* the entries of the tree that the current apply run wrote
WrittenByRun ==
  {formatted_to(d, n) : <<d, n>> \in
     {x \in Dirs \X {NameA, NameB, NameASp, NameSp} :
        /\ x[2] \in DOMAIN Entries(tree, x[1])
        /\ (x[2] \notin DOMAIN Entries(pre, x[1]) \/ tree[x[1]][x[2]] # pre[x[1]][x[2]])}}

\* C18: a merge-copy that fails ends the apply run in Failed at that step;
\* the failed run does nothing more (the next step is the start of another
\* command), a run writes the log only in the step that ends it in Done, so
\* the failed run leaves the log as it found it, and a log that exists then
\* holds none of the paths the failed run wrote.
C18_MergeFailureAborts ==
  [][/\ (AtMerge /\ ~force /\ Conflicts # {})
          => (pc' = "failed" /\ error' = "MergeCopy")
     /\ (pc \in {"modules", "thirdparty"} /\ pc' = "failed")
          => UNCHANGED <<applied_files, patched, logExists, log, todo>>
     /\ (cmd = "apply" /\ pc = "failed")
          => runs' = runs + 1
     /\ (cmd = "apply" /\ cmd' = "apply" /\ runs' = runs /\ pc' # "done")
          => UNCHANGED <<logExists, log>>
     /\ (cmd' = "apply" /\ pc' = "failed" /\ error' = "MergeCopy" /\ logExists')
          => WrittenByRun' \cap {LoggedPath(l) : l \in LogLines(log')} = {}]_vars

\* a merge-copy failed after the run had written part of a module into the
\* tree, with modules still to visit and an earlier run's log in place
C18_Witness ==
  /\ cmd = "apply" /\ pc = "failed" /\ error = "MergeCopy"
  /\ WrittenByRun # {}
  /\ todo # {}
  /\ logExists

\* the path names an entry directly under modules/ or thirdparty/
ImmediateChild(p) ==
  LET r == ResolvePath(p) IN
    /\ r.inTree
    /\ r.dir \in {MODULES, THIRDPARTY}
    /\ r.name # <<>>
    /\ \A i \in 1..Len(r.name) : r.name[i] # "/"

\* C19: every path apply writes into the log is an immediate child of
\* modules/ or of thirdparty/, and a clean driven by that log deletes neither
\* of the two directories themselves.
C19_CleanKeepsDirectories ==
  [][/\ (cmd' = "apply" /\ pc # "done" /\ pc' = "done")
          => \A i \in 1..Len(log') : ImmediateChild(LoggedPath(log'[i]))
     /\ (Starts("clean") /\ logExists)
          => DOMAIN tree \subseteq DOMAIN tree']_vars

\* the half of C19 about what apply writes
C19_LoggedPathsAreChildren ==
  [][(cmd' = "apply" /\ pc # "done" /\ pc' = "done")
          => \A i \in 1..Len(log') : ImmediateChild(LoggedPath(log'[i]))]_vars

\* the files of entry n of directory d in tree t that git does not track
UntrackedFiles(t, d, n) ==
  LET c == Entries(t, d)
      m == Entries(committed, d) IN
    IF n \notin DOMAIN c THEN {}
    ELSE IF n \in DOMAIN m THEN DOMAIN c[n] \ DOMAIN m[n]
    ELSE DOMAIN c[n]

\* C20: clean leaves every untracked file of an entry that is not a logged
\* path as it found it, creates no workspace and leaves the manifest alone.
C20_CleanTouchesOnlyLoggedPaths ==
  [][Starts("clean")
     => /\ \A d \in DOMAIN tree : \A n \in DOMAIN tree[d] :
             formatted_to(d, n) \notin {LoggedPath(l) : l \in LogLines(log)}
               => \A f \in UntrackedFiles(tree, d, n) :
                    /\ n \in DOMAIN Entries(tree', d)
                    /\ f \in DOMAIN tree'[d][n]
                    /\ tree'[d][n][f] = tree[d][n][f]
        /\ UNCHANGED <<tempExists, temp, manifest>>]_vars

\* C20 for logs whose paths strip() leaves as apply wrote them
C20_HoldsWhenStripKeepsPaths ==
  [][(Starts("clean") /\ \A l \in LogLines(log) : strip(l) = LoggedPath(l))
     => /\ \A d \in DOMAIN tree : \A n \in DOMAIN tree[d] :
             formatted_to(d, n) \notin {LoggedPath(l) : l \in LogLines(log)}
               => \A f \in UntrackedFiles(tree, d, n) :
                    /\ n \in DOMAIN Entries(tree', d)
                    /\ f \in DOMAIN tree'[d][n]
                    /\ tree'[d][n][f] = tree[d][n][f]
        /\ UNCHANGED <<tempExists, temp, manifest>>]_vars

Next ==
  \/ ApplyInit
  \/ CloneLine
  \/ FetchDone
  \/ NextModule
  \/ MergeModules
  \/ MergeThirdparty
  \/ ApplyPatches
  \/ RunHook
  \/ PersistLog
  \/ Clean

Spec == Init /\ [][Next]_vars

====
